---- MODULE Spec2Model ----
(***************************************************************************)
(* Model of mftool1.py: the trailing-window return calculator, the risk    *)
(* metrics calculator, the SIP / lumpsum calculators and the dashboard     *)
(* script that drives them.                                                *)
(*                                                                         *)
(* binary64 values are modelled as exact rationals (sign, numerator,       *)
(* denominator) plus NaN and the two infinities.  Numerators and           *)
(* denominators are unbounded naturals kept as little-endian sequences of  *)
(* base-Base limbs.  The only inexact operations are roots (x ** (1/k),    *)
(* sqrt), which are rounded up to a multiple of 1/RootScale.               *)
(***************************************************************************)
EXTENDS Integers, Sequences, FiniteSets, Bags, TLC

\* ------------------------------------------------------------------------
\* Unbounded naturals
\*
\* The operators on numbers evaluate each argument once:
\*     CHOOSE value \in {e : a \in {a_}} : TRUE
\* is e with a bound to the value of a_.
\* ------------------------------------------------------------------------
\* limbs of LimbBits bits, low limb first
LimbBits == 2 * 5

Base == 2 ^ LimbBits

\* sum of a sequence of naturals
SumSeq(s_) ==
    CHOOSE value \in {(
        BagCardinality([i \in 1..Len(s) |-> s[i] + 1]) - Len(s)
        ) : s \in {s_}} : TRUE

MaxOf(S) == CHOOSE i \in S : \A j \in S : j <= i

\* drop the high-order zero limbs
BTrim(c_) ==
    CHOOSE value \in {(
        LET nz == {i \in 1..Len(c) : c[i] # 0}
        IN  IF nz = {} THEN << >> ELSE SubSeq(c, 1, MaxOf(nz))
        ) : c \in {c_}} : TRUE

\* one carry (or borrow) pass over limbs that may lie outside 0..Base-1
BPass(c_) ==
    CHOOSE value \in {(
        BTrim([k \in 1..(Len(c) + 1) |->
                  (IF k <= Len(c) THEN c[k] % Base ELSE 0)
                + (IF k > 1 THEN c[k - 1] \div Base ELSE 0)] \o << >>)
        ) : c \in {c_}} : TRUE

RECURSIVE BCarry(_)
BCarry(c_) ==
    CHOOSE value \in {(
        IF \A k \in 1..Len(c) : c[k] >= 0 /\ c[k] < Base
        THEN BTrim(c)
        ELSE BCarry(BPass(c))
        ) : c \in {c_}} : TRUE

BFromNat(n) == BCarry(<<n>>)

BOne == <<1>>

BToNat(a_) ==
    CHOOSE value \in {(
        SumSeq([i \in 1..Len(a) |-> a[i] * Base ^ (i - 1)])
        ) : a \in {a_}} : TRUE

BLimb(a_, i_) ==
    CHOOSE value \in {(
        IF i >= 1 /\ i <= Len(a) THEN a[i] ELSE 0
        ) : a \in {a_}, i \in {i_}} : TRUE

BLonger(a_, b_) ==
    CHOOSE value \in {(
        IF Len(a) >= Len(b) THEN Len(a) ELSE Len(b)
        ) : a \in {a_}, b \in {b_}} : TRUE

\* -1, 0, 1 as a < b, a = b, a > b
BCmp(a_, b_) ==
    CHOOSE value \in {(
        LET df == {i \in 1..BLonger(a, b) : BLimb(a, i) # BLimb(b, i)}
        IN  IF df = {} THEN 0
            ELSE IF BLimb(a, MaxOf(df)) < BLimb(b, MaxOf(df)) THEN -1 ELSE 1
        ) : a \in {a_}, b \in {b_}} : TRUE

BAdd(a_, b_) ==
    CHOOSE value \in {(
        BCarry([i \in 1..BLonger(a, b) |-> BLimb(a, i) + BLimb(b, i)] \o << >>)
        ) : a \in {a_}, b \in {b_}} : TRUE

\* a - b for a >= b
BSub(a_, b_) ==
    CHOOSE value \in {(
        BCarry([i \in 1..BLonger(a, b) |-> BLimb(a, i) - BLimb(b, i)] \o << >>)
        ) : a \in {a_}, b \in {b_}} : TRUE

BMul(a_, b_) ==
    CHOOSE value \in {(
        IF a = << >> \/ b = << >> THEN << >>
        ELSE BCarry([k \in 1..(Len(a) + Len(b) - 1) |->
                        SumSeq([i \in 1..Len(a) |-> a[i] * BLimb(b, k + 1 - i)])] \o << >>)
        ) : a \in {a_}, b \in {b_}} : TRUE

RECURSIVE BPow(_, _)
BPow(a_, n_) ==
    CHOOSE value \in {(
        IF n = 0 THEN BOne
        ELSE LET h == BPow(a, n \div 2)
                 sq == BMul(h, h)
             IN  IF n % 2 = 0 THEN sq ELSE BMul(sq, a)
        ) : a \in {a_}, n \in {n_}} : TRUE

\* greatest q in lo..hi with d * q <= n   (d * lo <= n is given)
RECURSIVE BQuot(_, _, _, _)
BQuot(n_, d_, lo_, hi_) ==
    CHOOSE value \in {(
        IF lo = hi THEN lo
        ELSE LET mid == lo + ((hi - lo) \div 2) + ((hi - lo) % 2)
             IN  IF BCmp(BMul(d, BFromNat(mid)), n) <= 0
                 THEN BQuot(n, d, mid, hi)
                 ELSE BQuot(n, d, lo, mid - 1)
        ) : n \in {n_}, d \in {d_}, lo \in {lo_}, hi \in {hi_}} : TRUE

MaxNat == 2147483646 + 1

\* floor(n / d) for d > 0, when it is at most MaxNat
BDiv(n_, d_) ==
    CHOOSE value \in {(
        BQuot(n, d, 0, MaxNat)
        ) : n \in {n_}, d \in {d_}} : TRUE

Chunk == 2 ^ 30

\* floor(n / d) for d > 0, when it is below MaxNat * Chunk: the quotient by
\* d * Chunk, then the quotient of what is left by d
BDivLow(n_, d_, high_) ==
    CHOOSE value \in {(
        BAdd(BMul(BFromNat(high), BFromNat(Chunk)),
             BFromNat(BQuot(BSub(n, BMul(BMul(d, BFromNat(Chunk)), BFromNat(high))),
                            d, 0, Chunk - 1)))
        ) : n \in {n_}, d \in {d_}, high \in {high_}} : TRUE

BDivBig(n_, d_) ==
    CHOOSE value \in {(
        BDivLow(n, d, BDiv(n, BMul(d, BFromNat(Chunk))))
        ) : n \in {n_}, d \in {d_}} : TRUE

\* number of bits of a limb, of a natural
BitsOf(v) == CHOOSE b \in 0..LimbBits : IF v = 0 THEN b = 0 ELSE 2 ^ b > v /\ 2 ^ b <= 2 * v

BBits(a_) ==
    CHOOSE value \in {(
        IF a = << >> THEN 0 ELSE LimbBits * (Len(a) - 1) + BitsOf(a[Len(a)])
        ) : a \in {a_}} : TRUE

\* 2 ^ b
BPow2(b_) ==
    CHOOSE value \in {(
        [i \in 1..((b \div LimbBits) + 1) |->
            IF i <= b \div LimbBits THEN 0 ELSE 2 ^ (b % LimbBits)] \o << >>
        ) : b \in {b_}} : TRUE

\* a * 2 ^ b and floor(a / 2 ^ b)
BShl(a_, b_) ==
    CHOOSE value \in {(
        BMul(a, BPow2(b))
        ) : a \in {a_}, b \in {b_}} : TRUE

BShr(a_, b_) ==
    CHOOSE value \in {(
        LET w == b \div LimbBits
            p == 2 ^ (b % LimbBits)
        IN  BTrim([k \in 1..(Len(a) - w) |->
                      (a[k + w] \div p) + (BLimb(a, k + w + 1) % p) * (Base \div p)] \o << >>)
        ) : a \in {a_}, b \in {b_}} : TRUE

\* the floor q, or q + 1: c compares twice the remainder with the divisor,
\* and a tie goes to the even one
BNearest(q_, c_) ==
    CHOOSE value \in {(
        IF c > 0 \/ (c = 0 /\ BLimb(q, 1) % 2 = 1) THEN BAdd(q, BOne) ELSE q
        ) : q \in {q_}, c \in {c_}} : TRUE

BRoundShrFrom(a_, b_, q_) ==
    CHOOSE value \in {(
        BNearest(q, BCmp(BShl(BSub(a, BShl(q, b)), 1), BPow2(b)))
        ) : a \in {a_}, b \in {b_}, q \in {q_}} : TRUE

\* a / 2 ^ b rounded to the nearest natural, a tie to the even one
BRoundShr(a_, b_) ==
    CHOOSE value \in {(
        BRoundShrFrom(a, b, BShr(a, b))
        ) : a \in {a_}, b \in {b_}} : TRUE

BRoundDivFrom(n_, d_, q_) ==
    CHOOSE value \in {(
        BNearest(q, BCmp(BMul(BSub(n, BMul(d, q)), BFromNat(2)), d))
        ) : n \in {n_}, d \in {d_}, q \in {q_}} : TRUE

\* n / d rounded to the nearest natural, a tie to the even one
BRoundDiv(n_, d_) ==
    CHOOSE value \in {(
        BRoundDivFrom(n, d, BDivBig(n, d))
        ) : n \in {n_}, d \in {d_}} : TRUE

\* ------------------------------------------------------------------------
\* binary64 values: NaN, +-inf, or the rational s * n / d
\* ------------------------------------------------------------------------
NaN == [k |-> "nan", s |-> 0, n |-> << >>, d |-> BOne]

Inf(sg) == [k |-> "inf", s |-> sg, n |-> << >>, d |-> BOne]

Fin(sg_, n_, d_) ==
    CHOOSE value \in {(
        IF n = << >> THEN [k |-> "num", s |-> 0, n |-> << >>, d |-> BOne]
        ELSE [k |-> "num", s |-> sg, n |-> n, d |-> d]
        ) : sg \in {sg_}, n \in {n_}, d \in {d_}} : TRUE

Abs(i) == IF i < 0 THEN -i ELSE i

Sgn(i) == IF i < 0 THEN -1 ELSE IF i > 0 THEN 1 ELSE 0

\* the float of an int
R(i) == Fin(Sgn(i), BFromNat(Abs(i)), BOne)

\* p / q for ints, q > 0
Q(p, q) == Fin(Sgn(p), BFromNat(Abs(p)), BFromNat(q))

RIsNaN(a) == a.k = "nan"

RIsFinite(a) == a.k = "num"

RNeg(a_) ==
    CHOOSE value \in {(
        [a EXCEPT !.s = -a.s]
        ) : a \in {a_}} : TRUE

RAddFin(a_, b_) ==
    CHOOSE value \in {(
        LET same == a.d = b.d
            xx == IF same THEN a.n ELSE BMul(a.n, b.d)
            yy == IF same THEN b.n ELSE BMul(b.n, a.d)
            dd == IF same THEN a.d ELSE BMul(a.d, b.d)
            c == BCmp(xx, yy)
        IN  IF a.s = 0 THEN b
            ELSE IF b.s = 0 THEN a
            ELSE IF a.s = b.s THEN Fin(a.s, BAdd(xx, yy), dd)
            ELSE IF c = 0 THEN Fin(0, << >>, BOne)
            ELSE IF c > 0 THEN Fin(a.s, BSub(xx, yy), dd)
            ELSE Fin(b.s, BSub(yy, xx), dd)
        ) : a \in {a_}, b \in {b_}} : TRUE

RAdd(a_, b_) ==
    CHOOSE value \in {(
        IF a.k = "nan" \/ b.k = "nan" THEN NaN
        ELSE IF a.k = "inf" THEN (IF b.k = "inf" /\ b.s # a.s THEN NaN ELSE a)
        ELSE IF b.k = "inf" THEN b
        ELSE RAddFin(a, b)
        ) : a \in {a_}, b \in {b_}} : TRUE

RSub(a_, b_) ==
    CHOOSE value \in {(
        RAdd(a, RNeg(b))
        ) : a \in {a_}, b \in {b_}} : TRUE

RMul(a_, b_) ==
    CHOOSE value \in {(
        IF a.k = "nan" \/ b.k = "nan" THEN NaN
        ELSE IF a.k = "inf" \/ b.k = "inf"
             THEN (IF a.s = 0 \/ b.s = 0 THEN NaN ELSE Inf(a.s * b.s))
        ELSE Fin(a.s * b.s, BMul(a.n, b.n), BMul(a.d, b.d))
        ) : a \in {a_}, b \in {b_}} : TRUE

\* IEEE 754 division, as numpy and pandas perform it: x / 0 does not raise
RDiv(a_, b_) ==
    CHOOSE value \in {(
        IF a.k = "nan" \/ b.k = "nan" THEN NaN
        ELSE IF a.k = "inf"
             THEN (IF b.k = "inf" THEN NaN ELSE Inf(IF b.s < 0 THEN -a.s ELSE a.s))
        ELSE IF b.k = "inf" THEN Fin(0, << >>, BOne)
        ELSE IF b.s = 0 THEN (IF a.s = 0 THEN NaN ELSE Inf(a.s))
        ELSE Fin(a.s * b.s, BMul(a.n, b.d), BMul(a.d, b.n))
        ) : a \in {a_}, b \in {b_}} : TRUE

\* a < b, a = b as IEEE comparisons (false when either side is NaN)
RLt(a_, b_) ==
    CHOOSE value \in {(
        /\ a.k # "nan" /\ b.k # "nan"
        /\ IF a.k = "inf" /\ b.k = "inf" THEN a.s < b.s ELSE RSub(a, b).s < 0
        ) : a \in {a_}, b \in {b_}} : TRUE

REq(a_, b_) ==
    CHOOSE value \in {(
        /\ a.k # "nan" /\ b.k # "nan"
        /\ IF a.k = "inf" /\ b.k = "inf" THEN a.s = b.s ELSE RSub(a, b).s = 0
        ) : a \in {a_}, b \in {b_}} : TRUE

\* both NaN, or equal
RSame(a_, b_) ==
    CHOOSE value \in {(
        (RIsNaN(a) /\ RIsNaN(b)) \/ REq(a, b)
        ) : a \in {a_}, b \in {b_}} : TRUE

\* x ** n for an int n >= 0
RPowInt(a_, n_) ==
    CHOOSE value \in {(
        IF a.k = "nan" THEN (IF n = 0 THEN R(1) ELSE NaN)
        ELSE IF a.k = "inf" THEN (IF n = 0 THEN R(1) ELSE Inf(IF n % 2 = 0 THEN 1 ELSE a.s))
        ELSE IF n = 0 THEN R(1)
        ELSE Fin(IF n % 2 = 0 THEN a.s * a.s ELSE a.s, BPow(a.n, n), BPow(a.d, n))
        ) : a \in {a_}, n \in {n_}} : TRUE

RootDigits == 4

RootScale == 10 ^ RootDigits

\* least t in lo..hi with t^k * d >= rhs   (hi satisfies it)
RECURSIVE RootSearch(_, _, _, _, _)
RootSearch(rhs, d, k, lo, hi) ==
    IF lo = hi THEN lo
    ELSE LET mid == lo + ((hi - lo) \div 2)
         IN  IF BCmp(BMul(BPow(BFromNat(mid), k), d), rhs) >= 0
             THEN RootSearch(rhs, d, k, lo, mid)
             ELSE RootSearch(rhs, d, k, mid + 1, hi)

\* x ** (1 / k): NaN for a negative base, else the k-th root rounded up to
\* a multiple of 1 / RootScale (exact when the root is such a multiple); the
\* root lies between 1 and x
RRoot(a, k) ==
    IF a.k = "nan" THEN NaN
    ELSE IF a.s < 0 THEN NaN
    ELSE IF a.k = "inf" THEN a
    ELSE IF a.s = 0 THEN a
    ELSE Fin(1,
             BFromNat(RootSearch(BMul(a.n, BPow(BFromNat(RootScale), k)), a.d, k,
                                 IF BCmp(a.n, a.d) >= 0 THEN RootScale ELSE 0,
                                 IF BCmp(a.n, a.d) >= 0
                                 THEN RootScale * (BDiv(a.n, a.d) + 1)
                                 ELSE RootScale)),
             BFromNat(RootScale))

\* round half to even to 2 decimals (Python round(x, 2), Decimal.quantize)
RRound2(a_) ==
    CHOOSE value \in {(
        IF a.k # "num" \/ a.s = 0 THEN a
        ELSE Fin(a.s, BRoundDiv(BMul(a.n, BFromNat(100)), a.d), BFromNat(100))
        ) : a \in {a_}} : TRUE

\* ------------------------------------------------------------------------
\* binary64 arithmetic: each operation returns the double nearest to the
\* exact result (round to nearest, ties to even), as IEEE 754 requires of
\* + - * / and as the C library's pow does on the values met here
\* ------------------------------------------------------------------------
Mantissa == 52 + 1

\* s * n / 2 ^ t as a double, sh the number of bits n has too many
FlShift(sg_, n_, t_, sh_) ==
    CHOOSE value \in {(
        IF sh <= 0 THEN Fin(sg, n, BPow2(t))
        ELSE IF sh >= t THEN Fin(sg, BShl(BRoundShr(n, sh), sh - t), BOne)
        ELSE Fin(sg, BRoundShr(n, sh), BPow2(t - sh))
        ) : sg \in {sg_}, n \in {n_}, t \in {t_}, sh \in {sh_}} : TRUE

FlDyadic(sg_, n_, t_) ==
    CHOOSE value \in {(
        FlShift(sg, n, t, BBits(n) - Mantissa)
        ) : sg \in {sg_}, n \in {n_}, t \in {t_}} : TRUE

\* n * 2 ^ k / d as a pair of naturals
Scaled(n_, d_, k_) ==
    CHOOSE value \in {(
        IF k >= 0 THEN <<BShl(n, k), d>> ELSE <<n, BShl(d, -k)>>
        ) : n \in {n_}, d \in {d_}, k \in {k_}} : TRUE

\* s * n / d rounded at the scale 2 ^ -k
FlScaled(sg_, nd_, k_) ==
    CHOOSE value \in {(
        IF k >= 0 THEN Fin(sg, BRoundDiv(nd[1], nd[2]), BPow2(k))
        ELSE Fin(sg, BShl(BRoundDiv(nd[1], nd[2]), -k), BOne)
        ) : sg \in {sg_}, nd \in {nd_}, k \in {k_}} : TRUE

\* the scale at which the quotient has Mantissa bits: k0 or k0 - 1
FlScale(nd_, k0_) ==
    CHOOSE value \in {(
        IF BBits(BDivBig(nd[1], nd[2])) > Mantissa THEN k0 - 1 ELSE k0
        ) : nd \in {nd_}, k0 \in {k0_}} : TRUE

FlQuotFrom(sg_, n_, d_, k_) ==
    CHOOSE value \in {(
        FlScaled(sg, Scaled(n, d, k), k)
        ) : sg \in {sg_}, n \in {n_}, d \in {d_}, k \in {k_}} : TRUE

\* s * n / d as a double
FlQuot(sg_, n_, d_) ==
    CHOOSE value \in {(
        FlQuotFrom(sg, n, d,
                   FlScale(Scaled(n, d, Mantissa + BBits(d) - BBits(n)),
                           Mantissa + BBits(d) - BBits(n)))
        ) : sg \in {sg_}, n \in {n_}, d \in {d_}} : TRUE

Fl(x_) ==
    CHOOSE value \in {(
        IF x.k # "num" \/ x.s = 0 THEN x
        ELSE IF x.d = BPow2(BBits(x.d) - 1) THEN FlDyadic(x.s, x.n, BBits(x.d) - 1)
        ELSE FlQuot(x.s, x.n, x.d)
        ) : x \in {x_}} : TRUE

FAdd(a, b) == Fl(RAdd(a, b))

FSub(a, b) == Fl(RSub(a, b))

FMul(a, b) == Fl(RMul(a, b))

FDiv(a, b) == Fl(RDiv(a, b))

FPow(a, n) == Fl(RPowInt(a, n))

\* ------------------------------------------------------------------------
\* State
\* ------------------------------------------------------------------------
VARIABLES
    tab,                     \* the calculator whose widgets the user works
    sip_amount,              \* st.number_input('SIP Amount', 100, 100000, 1000)
    rate_of_return,          \* st.slider(..., 1, 30, 12)
    duration,                \* st.number_input(..., 1, 100, 10)
    checkbox,                \* 'Adjust SIP for Inflation ?'
    sip_view,                \* what the SIP tab has rendered
    lumpsum_amount,          \* st.number_input('Investment Amount', 100, 9999999999, 1000)
    lumpsum_rate_of_return,  \* st.slider(..., 1, 30, 12)
    lumpsum_duration,        \* st.number_input(..., 1, 99, 10)
    lumpsum_checkbox,        \* 'Adjust Investment for Inflation ?'
    lumpsum_view,            \* what the lumpsum tab has rendered
    nav_df,                  \* the 'nav' column of the frame under analysis
    annualized_returns_df,   \* calculate_annualized_returns' one-row table
    detailed_df,             \* the per-row return columns of the detailed tab
    returns_df,              \* calculate_financial_metrics' first argument (one row)
    benchmark_returns_df,    \* its second argument (one row)
    financial_metrics_df,    \* the metrics table it returns, or the error raised
    fund_codes,              \* Comparison Mode: what the provider holds for each code entered
    benchmark_df_comparison, \* the benchmark's 'Adj Close' column
    fund_code,               \* position of the loop over fund_codes
    scheme_name,             \* the script-level name bound by the last fetch
    emitted,                 \* the tables the comparison has written to the page
    script,                  \* where the script run stands
    analysis_code,           \* Analysis Mode: fund_code = st.text_input(...)
    benchmark_df,            \* Analysis Mode: the benchmark's 'Adj Close' column
    detailed_code,           \* Detailed Annual Returns: scheme_code = st.text_input(...)
    start_date,              \* Detailed Annual Returns: the date typed, split at '-'
    detailed_view            \* what the Detailed Annual Returns tab has rendered

calcVars == <<tab, sip_amount, rate_of_return, duration, checkbox, sip_view,
              lumpsum_amount, lumpsum_rate_of_return, lumpsum_duration,
              lumpsum_checkbox, lumpsum_view>>

retVars == <<nav_df, annualized_returns_df, detailed_df>>

metVars == <<returns_df, benchmark_returns_df, financial_metrics_df>>

cmpVars == <<fund_codes, benchmark_df_comparison, fund_code, scheme_name,
             emitted, script>>

runVars == <<analysis_code, benchmark_df, detailed_code, start_date, detailed_view>>

vars == <<calcVars, retVars, metVars, cmpVars, runVars>>

\* a table cell or rendered field that holds nothing
Blank == [k |-> "blank", s |-> 0, n |-> << >>, d |-> BOne]

\* ------------------------------------------------------------------------
\* Return calculators
\* ------------------------------------------------------------------------
TRADING_DAYS == 250

\* mutant of Shift: the look-back is one row short
ShiftOneShort(series, n) ==
    [i \in 1..Len(series) |-> IF i > n - 1 THEN series[i - (n - 1)] ELSE NaN] \o << >>

\* series.shift(n): row i takes the value n rows earlier, the first n are NaN
Shift(series, n) ==
    [i \in 1..Len(series) |-> IF i > n THEN series[i - n] ELSE NaN] \o << >>

\* ((latest / base) - 1) * 100
SimpleReturn(latest, base) == RMul(RSub(RDiv(latest, base), R(1)), R(100))

\* ((latest / base) ** (1 / years) - 1) * 100
GeometricReturn(latest, base, years) ==
    RMul(RSub(RRoot(RDiv(latest, base), years), R(1)), R(100))

\* the NAV values the model draws, and the geometric returns between them
NavBase == 100

NavCycle == 3

NavVals == NavBase..(NavBase + NavCycle - 1)

WholeYears == {2, 3, 5, 10}

GeometricTable ==
    [a \in NavVals, b \in NavVals, y \in WholeYears |->
        GeometricReturn(R(a), R(b), y)] @@ << >>

Geometric(latest, base, years) ==
    IF RIsNaN(latest) \/ RIsNaN(base) THEN NaN
    ELSE IF /\ latest.d = BOne /\ base.d = BOne /\ latest.s = 1 /\ base.s = 1
            /\ <<BToNat(latest.n), BToNat(base.n), years>> \in DOMAIN GeometricTable
         THEN GeometricTable[BToNat(latest.n), BToNat(base.n), years]
         ELSE GeometricReturn(latest, base, years)

\* calculate_annualized_returns.calculate_returns(latest_value, series, n),
\* latest_value a scalar
calculate_returns_inner(latest_value, series, n) ==
    LET shifted == Shift(series, n)
    IN  [i \in 1..Len(series) |->
            IF n = TRADING_DAYS
            THEN SimpleReturn(latest_value, shifted[i])
            ELSE Geometric(latest_value, shifted[i], n \div TRADING_DAYS)]

\* periods = {'1 Year': 250, '2 Years': 500, '3 Years': 750, '5 Years': 1250, '10 Years': 2500}
periods == <<250, 500, 750, 1250, 2500>>

\* series.iloc[-1]
Last(series) == series[Len(series)]

\* calculate_annualized_returns(df, column_name): the row of period returns
calculate_annualized_returns(column) ==
    [j \in 1..Len(periods) |->
        Last(calculate_returns_inner(Last(column), column, periods[j]))] \o << >>

\* calculate_returns1(latest_nav, nav_series, n), both arguments series
calculate_returns1(latest_nav, nav_series, n) ==
    LET shifted == Shift(nav_series, n)
    IN  [i \in 1..Len(nav_series) |-> SimpleReturn(latest_nav[i], shifted[i])] \o << >>

\* calculate_returns(latest_nav, nav_series, n), both arguments series
calculate_returns(latest_nav, nav_series, n) ==
    LET shifted == Shift(nav_series, n)
    IN  [i \in 1..Len(nav_series) |-> Geometric(latest_nav[i], shifted[i], n)] \o << >>

\* the five "<k> Year Return" columns of the detailed tab, by k
DetailedYears == <<1, 2, 3, 5, 10>>

DetailedColumns(nav) ==
    [j \in 1..Len(DetailedYears) |->
        IF DetailedYears[j] = 1
        THEN calculate_returns1(nav, nav, 250)
        ELSE calculate_returns(nav, Shift(nav, 250 * DetailedYears[j]),
                               DetailedYears[j])] \o << >>

\* pd.to_numeric(nav_df['nav']): the column as floats
Floats(column) == [i \in 1..Len(column) |-> R(column[i])] \o << >>

\* ------------------------------------------------------------------------
\* Risk metrics
\* ------------------------------------------------------------------------
\* RISK_FREE_RATE = 6.7
RISK_FREE_RATE == Q(67, 10)

RECURSIVE RSumFrom(_, _)
RSumFrom(a, i) == IF i > Len(a) THEN R(0) ELSE RAdd(a[i], RSumFrom(a, i + 1))

\* mutant of Mean: undefined entries are dropped before averaging
MeanOfDefined(a) ==
    LET defined == SelectSeq(a, LAMBDA v : ~RIsNaN(v))
    IN  IF Len(defined) = 0 THEN NaN ELSE RDiv(RSumFrom(defined, 1), R(Len(defined)))

\* np.mean(a): NaN for an empty array
Mean(a) == IF Len(a) = 0 THEN NaN ELSE RDiv(RSumFrom(a, 1), R(Len(a)))

\* np.std(a): the population standard deviation
Std(a) ==
    LET m == Mean(a)
    IN  RRoot(Mean([i \in 1..Len(a) |-> RMul(RSub(a[i], m), RSub(a[i], m))] \o << >>), 2)

\* row.values / 100
Decimals(row) == [i \in 1..Len(row) |-> RDiv(row[i], R(100))] \o << >>

RECURSIVE NegativeFrom(_, _)
NegativeFrom(a, i) ==
    IF i > Len(a) THEN << >>
    ELSE (IF RLt(a[i], R(0)) THEN <<a[i]>> ELSE << >>) \o NegativeFrom(a, i + 1)

\* mutant of NegativeReturns: the subset is not taken
NegativeReturnsUnfiltered(annual_returns) == annual_returns

\* annual_returns[annual_returns < 0]
NegativeReturns(annual_returns) == NegativeFrom(annual_returns, 1)

\* np.std(negative_returns) if len(negative_returns) > 0 else 0
DownsideRisk(annual_returns) ==
    IF Len(NegativeReturns(annual_returns)) > 0
    THEN Std(NegativeReturns(annual_returns))
    ELSE R(0)

\* (average_return - risk_free_rate_decimal) / average_risk if average_risk != 0 else np.nan
SharpeRatio(average_return, average_risk) ==
    IF ~REq(average_risk, R(0))
    THEN RDiv(RSub(average_return, RDiv(RISK_FREE_RATE, R(100))), average_risk)
    ELSE NaN

\* np.amax(x) == np.amin(x): false as soon as x holds a NaN
AllIdentical(xs) ==
    /\ \A i \in 1..Len(xs) : ~RIsNaN(xs[i])
    /\ \A i \in 1..Len(xs) : REq(xs[i], xs[1])

\* mutant of LinregressRaises: arrays of different lengths are accepted
LinregressRaisesUnchecked(xs, ys) ==
    \/ Len(xs) = 0 \/ Len(ys) = 0
    \/ (Len(xs) > 1 /\ AllIdentical(xs))

\* scipy.stats.linregress(x, y) raises ValueError: empty input, all x
\* identical, or np.cov(x, y) given arrays of different lengths
LinregressRaises(xs, ys) ==
    \/ Len(xs) = 0 \/ Len(ys) = 0
    \/ (Len(xs) > 1 /\ AllIdentical(xs))
    \/ Len(xs) # Len(ys)

Shorter(xs, ys) == IF Len(xs) <= Len(ys) THEN Len(xs) ELSE Len(ys)

\* the slope linregress fits: ssxym / ssxm
Slope(xs, ys) ==
    LET xmean == Mean(xs)
        ymean == Mean(ys)
        ssxm  == Mean([i \in 1..Len(xs) |->
                         RMul(RSub(xs[i], xmean), RSub(xs[i], xmean))] \o << >>)
        ssxym == Mean([i \in 1..Shorter(xs, ys) |->
                         RMul(RSub(xs[i], xmean), RSub(ys[i], ymean))] \o << >>)
    IN  RDiv(ssxym, ssxm)

\* mutant of Alpha: scaled to a percentage
AlphaPct(average_return, benchmark_return, slope) ==
    RMul(RSub(average_return, RMul(benchmark_return, slope)), R(100))

\* alpha = average_return - (benchmark_return * slope)
Alpha(average_return, benchmark_return, slope) ==
    RSub(average_return, RMul(benchmark_return, slope))

NoMetrics ==
    [status |-> "none", AverageReturnPct |-> Blank, BenchmarkReturnPct |-> Blank,
     AverageRisk |-> Blank, DownsideRisk |-> Blank, SharpeRatio |-> Blank,
     Alpha |-> Blank]

\* the call raised: no table is returned
Raised(error) == [NoMetrics EXCEPT !.status = error]

\* calculate_financial_metrics(returns_df, benchmark_returns_df)
calculate_financial_metrics(fund_row, benchmark_row) ==
    LET annual_returns == Decimals(fund_row)
        benchmark_annual_returns == Decimals(benchmark_row)
        average_return == Mean(annual_returns)
        benchmark_return == Mean(benchmark_annual_returns)
        average_risk == Std(annual_returns)
        slope == Slope(benchmark_annual_returns, annual_returns)
    IN  IF LinregressRaises(benchmark_annual_returns, annual_returns)
        THEN Raised("ValueError")
        ELSE [status |-> "table",
              AverageReturnPct |-> RMul(average_return, R(100)),
              BenchmarkReturnPct |-> RMul(benchmark_return, R(100)),
              AverageRisk |-> average_risk,
              DownsideRisk |-> DownsideRisk(annual_returns),
              SharpeRatio |-> SharpeRatio(average_return, average_risk),
              Alpha |-> Alpha(average_return, benchmark_return, slope)]

\* ------------------------------------------------------------------------
\* SIP and lumpsum calculators
\* ------------------------------------------------------------------------
INFLATION == 6

NoView == [status |-> "none", invested |-> Blank, final |-> Blank, gain |-> Blank,
           future_value |-> Blank]

\* the three st.subheader lines of a calculator
Shown(invested, final, gain, fv) ==
    [status |-> "result", invested |-> invested, final |-> final, gain |-> gain,
     future_value |-> fv]

\* st.warning('Please change the expcted rate of return')
Warned == [NoView EXCEPT !.status = "warning"]

\* an exception no handler catches: the script run stops, nothing is rendered
Crashed == [NoView EXCEPT !.status = "exception"]

\* mutant of ZeroDivisionError: the division follows IEEE 754 and never raises
ZeroDivisionNeverRaised(divisor) == FALSE

\* Python's float division raises ZeroDivisionError on a zero divisor
ZeroDivisionError(divisor) == divisor.k = "num" /\ divisor.s = 0

\* babel.numbers.format_currency(x, 'INR', locale='en_IN'): Decimal(str(x))
\* quantized to two decimals, ties to even. str(x) is the shortest decimal
\* that reads back as x: when the tie between the two neighbouring amounts
\* reads back as x, str(x) is that tie; otherwise rounding str(x) and rounding
\* x agree
Quantized(v_, q_) ==
    CHOOSE value \in {(
        IF REq(Fl(Fin(v.s, BAdd(BMul(q, BFromNat(2)), BOne), BFromNat(200))), v)
        THEN Fin(v.s, IF BLimb(q, 1) % 2 = 0 THEN q ELSE BAdd(q, BOne), BFromNat(100))
        ELSE RRound2(v)
        ) : v \in {v_}, q \in {q_}} : TRUE

format_currency(v_) ==
    CHOOSE value \in {(
        IF v.k # "num" \/ v.s = 0 THEN v
        ELSE Quantized(v, BDivBig(BMul(v.n, BFromNat(100)), v.d))
        ) : v \in {v_}} : TRUE

\* rate / 12 / 100
MonthlyRate(rate_) ==
    CHOOSE value \in {(
        FDiv(FDiv(R(rate), R(12)), R(100))
        ) : rate \in {rate_}} : TRUE

\* (rate_of_return - 6) / 12 / 100
MonthlyRateAdjusted(rate) == MonthlyRate(rate - INFLATION)

\* sip_amount * ((((1 + monthly_rate) ** (months)) - 1) * (1 + monthly_rate)) / monthly_rate
SipFutureValue(amount_, monthly_rate_, months_) ==
    CHOOSE value \in {(
        FDiv(FMul(R(amount),
                  FMul(FSub(FPow(FAdd(R(1), monthly_rate), months), R(1)),
                       FAdd(R(1), monthly_rate))),
             monthly_rate)
        ) : amount \in {amount_}, monthly_rate \in {monthly_rate_}, months \in {months_}} : TRUE

\* round(float(future_value) - float(invested_value), 2)
Gain(future_value_, invested_value_) ==
    CHOOSE value \in {(
        Fl(RRound2(FSub(future_value, R(invested_value))))
        ) : future_value \in {future_value_}, invested_value \in {invested_value_}} : TRUE

\* the body shared by the two SIP branches, from monthly_rate on
SipBody(amount_, monthly_rate_, years_) ==
    CHOOSE value \in {(
        LET months == years * 12
            invested_value == amount * months
            future_value == SipFutureValue(amount, monthly_rate, months)
        IN  Shown(format_currency(R(invested_value)), format_currency(future_value),
                  format_currency(Gain(future_value, invested_value)), future_value)
        ) : amount \in {amount_}, monthly_rate \in {monthly_rate_}, years \in {years_}} : TRUE

\* mutant of SipStandardView: inflation is subtracted in standard mode too
SipStandardViewInflated(amount, rate, years) ==
    IF ZeroDivisionError(MonthlyRateAdjusted(rate)) THEN Crashed
    ELSE SipBody(amount, MonthlyRateAdjusted(rate), years)

\* if checkbox == False: no handler around the computation
SipStandardView(amount, rate, years) ==
    IF ZeroDivisionError(MonthlyRate(rate)) THEN Crashed
    ELSE SipBody(amount, MonthlyRate(rate), years)

\* elif checkbox == True: try ... except Exception: st.warning(...)
SipAdjustedView(amount, rate, years) ==
    IF ZeroDivisionError(MonthlyRateAdjusted(rate)) THEN Warned
    ELSE SipBody(amount, MonthlyRateAdjusted(rate), years)

\* lumpsum_amount * (pow((1 + lumpsum_rate_of_return / 100), lumpsum_duration))
Cagr(amount, rate, years) ==
    FMul(R(amount), FPow(FAdd(R(1), FDiv(R(rate), R(100))), years))

\* lumpsum_amount * (pow((1 + (lumpsum_rate_of_return - 6) / 100), lumpsum_duration))
CagrAfterInflation(amount, rate, years) == Cagr(amount, rate - INFLATION, years)

\* the three st.subheader lines of the lumpsum tab
LumpsumBody(amount_, cagr_) ==
    CHOOSE value \in {(
        Shown(format_currency(R(amount)), format_currency(cagr),
              format_currency(Gain(cagr, amount)), cagr)
        ) : amount \in {amount_}, cagr \in {cagr_}} : TRUE

LumpsumStandardView(amount, rate, years) == LumpsumBody(amount, Cagr(amount, rate, years))

LumpsumAdjustedView(amount, rate, years) ==
    LumpsumBody(amount, CagrAfterInflation(amount, rate, years))

\* ------------------------------------------------------------------------
\* Specifications: each draws the inputs of one part of the script and leaves
\* the rest of the state idle
\* ------------------------------------------------------------------------
NoTable == << >>

RetIdle == nav_df = << >> /\ annualized_returns_df = NoTable /\ detailed_df = NoTable

MetIdle ==
    returns_df = << >> /\ benchmark_returns_df = << >> /\ financial_metrics_df = NoMetrics

\* the widgets' default values
CalcDefaults ==
    /\ sip_amount = 1000 /\ rate_of_return = 12 /\ duration = 10 /\ checkbox = FALSE
    /\ lumpsum_amount = 1000 /\ lumpsum_rate_of_return = 12 /\ lumpsum_duration = 10
    /\ lumpsum_checkbox = FALSE

CalcIdle == tab = "none" /\ CalcDefaults /\ sip_view = NoView /\ lumpsum_view = NoView

\* before any fetch the script has bound no scheme_name
Unbound == "unbound"

CmpIdle ==
    /\ fund_codes = << >> /\ benchmark_df_comparison = << >> /\ fund_code = 0
    /\ scheme_name = Unbound /\ emitted = << >> /\ script = "none"

\* the Detailed Annual Returns tab has rendered nothing
NoDetail == [status |-> "none", summary |-> Unbound]

RunIdle ==
    /\ analysis_code = "" /\ benchmark_df = << >> /\ detailed_code = ""
    /\ start_date = << >> /\ detailed_view = NoDetail

\* bounds of the series drawn
MaxYears == 10

MaxExtra == 2

MaxProfile == 2

SeriesLengths ==
    {TRADING_DAYS * y + e : y \in 0..MaxYears, e \in 0..MaxExtra} \ {0}

\* a NAV history of the given length: prices cycle through NavVals
Series(length, profile) ==
    [i \in 1..length |-> NavBase + ((i * profile) % NavCycle)] \o << >>

InitReturns ==
    /\ \E length \in SeriesLengths, profile \in 0..MaxProfile :
          nav_df = Series(length, profile)
    /\ annualized_returns_df = NoTable
    /\ detailed_df = NoTable
    /\ CalcIdle
    /\ MetIdle
    /\ CmpIdle
    /\ RunIdle

\* the summary table of a non-empty frame
Summarize ==
    /\ nav_df # << >> /\ annualized_returns_df = NoTable
    /\ annualized_returns_df' = calculate_annualized_returns(Floats(nav_df))
    /\ UNCHANGED <<nav_df, detailed_df, calcVars, metVars, cmpVars, runVars>>

\* the per-row table of the same frame
Detail ==
    /\ nav_df # << >> /\ detailed_df = NoTable
    /\ detailed_df' = DetailedColumns(Floats(nav_df))
    /\ UNCHANGED <<nav_df, annualized_returns_df, calcVars, metVars, cmpVars, runVars>>

NextReturns == Summarize \/ Detail

SpecReturns == InitReturns /\ [][NextReturns]_vars

\* bounds of the return rows drawn
MaxWindows == 3

FundVals == {NaN, R(-5), R(-2), R(10)}

BenchShapes == {"flat", "rising", "gap"}

\* a benchmark row: one value, a rising line, or a rising line whose last
\* window is undefined
BenchRow(length, shape) ==
    [i \in 1..length |->
        IF shape = "flat" THEN R(6)
        ELSE IF shape = "gap" /\ i = length THEN NaN
        ELSE R(3 * i - 5)] \o << >>

InitMetrics ==
    /\ \E n \in 1..MaxWindows : returns_df \in [1..n -> FundVals]
    /\ \E m \in 1..MaxWindows, shape \in BenchShapes :
          benchmark_returns_df = BenchRow(m, shape)
    /\ financial_metrics_df = NoMetrics
    /\ CalcIdle
    /\ RetIdle
    /\ CmpIdle
    /\ RunIdle

Metrics ==
    /\ returns_df # << >> /\ financial_metrics_df = NoMetrics
    /\ financial_metrics_df' =
          calculate_financial_metrics(returns_df, benchmark_returns_df)
    /\ UNCHANGED <<returns_df, benchmark_returns_df, calcVars, retVars, cmpVars, runVars>>

NextMetrics == Metrics

SpecMetrics == InitMetrics /\ [][NextMetrics]_vars

\* bounds of the calculator inputs drawn
MaxDuration == 2

SipAmounts == {100, 1000, 100000}

LumpsumAmounts == {102, 1000, 9999999}

Rates == {1, 5, 6, 7, 12, 30}

Durations == 1..MaxDuration

InitCalc ==
    /\ RetIdle
    /\ MetIdle
    /\ CmpIdle
    /\ RunIdle
    /\ tab \in {"SIP Calculator", "Lumpsum Investment Calculator"}
    /\ sip_view = NoView
    /\ lumpsum_view = NoView
    /\ IF tab = "SIP Calculator"
       THEN /\ sip_amount \in SipAmounts
            /\ rate_of_return \in Rates
            /\ duration \in Durations
            /\ checkbox \in BOOLEAN
            /\ lumpsum_amount = 1000 /\ lumpsum_rate_of_return = 12
            /\ lumpsum_duration = 10 /\ lumpsum_checkbox = FALSE
       ELSE /\ sip_amount = 1000 /\ rate_of_return = 12
            /\ duration = 10 /\ checkbox = FALSE
            /\ lumpsum_amount \in LumpsumAmounts
            /\ lumpsum_rate_of_return \in Rates
            /\ lumpsum_duration \in Durations
            /\ lumpsum_checkbox \in BOOLEAN

SipStandard ==
    /\ tab = "SIP Calculator" /\ sip_view.status = "none" /\ checkbox = FALSE
    /\ sip_view' = SipStandardView(sip_amount, rate_of_return, duration)
    /\ UNCHANGED <<tab, sip_amount, rate_of_return, duration, checkbox,
                   lumpsum_amount, lumpsum_rate_of_return, lumpsum_duration,
                   lumpsum_checkbox, lumpsum_view, retVars, metVars, cmpVars,
                   runVars>>

SipAdjusted ==
    /\ tab = "SIP Calculator" /\ sip_view.status = "none" /\ checkbox = TRUE
    /\ sip_view' = SipAdjustedView(sip_amount, rate_of_return, duration)
    /\ UNCHANGED <<tab, sip_amount, rate_of_return, duration, checkbox,
                   lumpsum_amount, lumpsum_rate_of_return, lumpsum_duration,
                   lumpsum_checkbox, lumpsum_view, retVars, metVars, cmpVars,
                   runVars>>

LumpsumStandard ==
    /\ tab = "Lumpsum Investment Calculator" /\ lumpsum_view.status = "none"
    /\ lumpsum_checkbox = FALSE
    /\ lumpsum_view' = LumpsumStandardView(lumpsum_amount, lumpsum_rate_of_return,
                                           lumpsum_duration)
    /\ UNCHANGED <<tab, sip_amount, rate_of_return, duration, checkbox, sip_view,
                   lumpsum_amount, lumpsum_rate_of_return, lumpsum_duration,
                   lumpsum_checkbox, retVars, metVars, cmpVars,
                   runVars>>

LumpsumAdjusted ==
    /\ tab = "Lumpsum Investment Calculator" /\ lumpsum_view.status = "none"
    /\ lumpsum_checkbox = TRUE
    /\ lumpsum_view' = LumpsumAdjustedView(lumpsum_amount, lumpsum_rate_of_return,
                                           lumpsum_duration)
    /\ UNCHANGED <<tab, sip_amount, rate_of_return, duration, checkbox, sip_view,
                   lumpsum_amount, lumpsum_rate_of_return, lumpsum_duration,
                   lumpsum_checkbox, retVars, metVars, cmpVars,
                   runVars>>

NextCalc == SipStandard \/ SipAdjusted \/ LumpsumStandard \/ LumpsumAdjusted

SpecCalc == InitCalc /\ [][NextCalc]_vars

\* ------------------------------------------------------------------------
\* Comparison Mode: the loop over the fund codes entered
\* ------------------------------------------------------------------------
\* bound of the list of codes entered
MaxFunds == 2

\* what the data provider holds for a code: nothing at all ("unknown"), the
\* scheme's details but no NAV rows ("empty"), or details and a NAV history
Codes == {"unknown", "empty", "short", "long"}

\* mf.get_scheme_details(scheme_code): None for a code the provider does not know
get_scheme_details(scheme_code) ==
    IF scheme_code = "unknown" THEN "None" ELSE "Scheme " \o scheme_code

\* mf.get_scheme_historical_nav(...)['data'], sorted by date; empty when absent
get_scheme_historical_nav(scheme_code) ==
    IF scheme_code = "short" THEN Series(TRADING_DAYS + 1, 1)
    ELSE IF scheme_code = "long" THEN Series(MaxYears * TRADING_DAYS + 1, 2)
    ELSE << >>

\* fetch_nav_data_and_name: .get on None raises AttributeError; otherwise the
\* frame (empty without data) and the scheme's name
fetch_nav_data_and_name(scheme_code) ==
    IF get_scheme_details(scheme_code) = "None"
    THEN [status |-> "AttributeError", nav_df |-> << >>, scheme_name |-> Unbound]
    ELSE [status |-> "ok", nav_df |-> get_scheme_historical_nav(scheme_code),
          scheme_name |-> get_scheme_details(scheme_code)]

\* fetch_benchmark_data: the benchmark's prices, or an empty frame
Benchmarks == {<< >>, Series(MaxYears * TRADING_DAYS + 1, 1)}

InitCompare ==
    /\ \E n \in 0..MaxFunds : fund_codes \in [1..n -> Codes]
    /\ benchmark_df_comparison \in Benchmarks
    /\ fund_code = 0
    /\ scheme_name = Unbound
    /\ emitted = << >>
    /\ script = "idle"
    /\ CalcIdle
    /\ RetIdle
    /\ MetIdle
    /\ RunIdle

\* if fund_codes and not benchmark_df_comparison.empty: enter the for loop
CompareOpen ==
    /\ script = "idle"
    /\ IF fund_codes # << >> /\ benchmark_df_comparison # << >>
       THEN script' = "loop" /\ fund_code' = 1
       ELSE script' = "done" /\ UNCHANGED fund_code
    /\ UNCHANGED <<fund_codes, benchmark_df_comparison, scheme_name, emitted,
                   calcVars, retVars, metVars, runVars>>

\* one pass of the loop body: fetch, then (if the frame is not empty) the two
\* tables; nothing in the loop catches an exception, so one ends the script run
CompareFund ==
    /\ script = "loop"
    /\ \E fetched \in {fetch_nav_data_and_name(fund_codes[fund_code])} :
       \E ret \in {IF fetched.nav_df = << >> THEN NoTable
                   ELSE calculate_annualized_returns(Floats(fetched.nav_df))} :
       \E bench \in {IF fetched.nav_df = << >> THEN NoTable
                     ELSE calculate_annualized_returns(Floats(benchmark_df_comparison))} :
       \E met \in {IF fetched.nav_df = << >> THEN NoMetrics
                   ELSE calculate_financial_metrics(ret, bench)} :
       LET analysed == fetched.status = "ok" /\ fetched.nav_df # << >>
           failed == fetched.status # "ok" \/ (analysed /\ met.status # "table")
       IN /\ IF fetched.status = "ok"
             THEN nav_df' = fetched.nav_df /\ scheme_name' = fetched.scheme_name
             ELSE UNCHANGED <<nav_df, scheme_name>>
          /\ IF analysed
             THEN /\ annualized_returns_df' = ret
                  /\ returns_df' = ret
                  /\ benchmark_returns_df' = bench
             ELSE UNCHANGED <<annualized_returns_df, returns_df, benchmark_returns_df>>
          /\ IF analysed /\ ~failed
             THEN /\ financial_metrics_df' = met
                  /\ emitted' = Append(emitted,
                        [fund |-> fund_code, scheme_name |-> fetched.scheme_name,
                         returns |-> ret, metrics |-> met])
             ELSE UNCHANGED <<financial_metrics_df, emitted>>
          /\ IF failed
             THEN script' = "aborted" /\ UNCHANGED fund_code
             ELSE /\ fund_code' = fund_code + 1
                  /\ script' = IF fund_code = Len(fund_codes) THEN "done" ELSE "loop"
    /\ UNCHANGED <<fund_codes, benchmark_df_comparison, detailed_df, calcVars,
                   runVars>>

NextCompare == CompareOpen \/ CompareFund

SpecCompare == InitCompare /\ [][NextCompare]_vars

\* One run of the script: Analysis Mode, Comparison Mode, then (the calculator
\* tabs raise nothing at their widgets' defaults) Detailed Annual Returns
MaxRunFunds == 1

\* the start dates typed: nothing, 03-04-2006, 2006-04-03
StartDates == {<< >>, <<3, 4, 2006>>, <<2006, 4, 3>>}

\* the scheme codes typed into the detailed tab
DetailedCodes == {"", "unknown", "short"}

LeapYear(y) == (y % 4 = 0 /\ y % 100 # 0) \/ y % 400 = 0

DaysIn(m, y) ==
    IF m = 2 THEN (IF LeapYear(y) THEN 29 ELSE 28)
    ELSE IF m \in {4, 6, 9, 11} THEN 30 ELSE 31

\* datetime.strptime(start_date, "%d-%m-%Y") returns; it raises ValueError otherwise
strptime(date) ==
    /\ Len(date) = 3
    /\ date[2] \in 1..12
    /\ date[3] \in 1..9999
    /\ date[1] \in 1..DaysIn(date[2], date[3])

\* the Detailed Annual Returns tab, given the script-level scheme_name it finds
DetailedRequest(code, date, name) ==
    IF code = "" \/ date = << >> THEN [status |-> "blank", summary |-> Unbound]
    ELSE IF ~strptime(date) THEN [status |-> "Invalid date format", summary |-> Unbound]
    ELSE IF get_scheme_historical_nav(code) = << >>
    THEN [status |-> "No data found", summary |-> Unbound]
    ELSE IF name = Unbound THEN [status |-> "NameError", summary |-> Unbound]
    ELSE [status |-> "shown", summary |-> name]

InitRun ==
    /\ analysis_code \in {""} \cup Codes
    /\ benchmark_df \in Benchmarks
    /\ \E n \in 0..MaxRunFunds : fund_codes \in [1..n -> Codes]
    /\ benchmark_df_comparison \in Benchmarks
    /\ detailed_code \in DetailedCodes
    /\ start_date \in StartDates
    /\ detailed_view = NoDetail
    /\ fund_code = 0
    /\ scheme_name = Unbound
    /\ emitted = << >>
    /\ script = "start"
    /\ CalcIdle
    /\ RetIdle
    /\ MetIdle

\* Analysis Mode: if fund_code, fetch (binding nav_df and scheme_name) and,
\* with both frames non-empty, write the two tables; an exception ends the run
AnalysisMode ==
    /\ script = "start"
    /\ \E fetched \in {IF analysis_code = ""
                       THEN [status |-> "skip", nav_df |-> << >>, scheme_name |-> Unbound]
                       ELSE fetch_nav_data_and_name(analysis_code)} :
       \E analysed \in {fetched.status = "ok" /\ fetched.nav_df # << >>
                        /\ benchmark_df # << >>} :
       \E ret \in {IF analysed THEN calculate_annualized_returns(Floats(fetched.nav_df))
                   ELSE NoTable} :
       \E bench \in {IF analysed THEN calculate_annualized_returns(Floats(benchmark_df))
                     ELSE NoTable} :
       \E met \in {IF analysed THEN calculate_financial_metrics(ret, bench)
                   ELSE NoMetrics} :
       LET failed == fetched.status = "AttributeError"
                     \/ (analysed /\ met.status # "table")
       IN /\ IF fetched.status = "ok"
             THEN nav_df' = fetched.nav_df /\ scheme_name' = fetched.scheme_name
             ELSE UNCHANGED <<nav_df, scheme_name>>
          /\ IF analysed
             THEN /\ annualized_returns_df' = ret
                  /\ returns_df' = ret
                  /\ benchmark_returns_df' = bench
             ELSE UNCHANGED <<annualized_returns_df, returns_df, benchmark_returns_df>>
          /\ IF analysed /\ ~failed
             THEN /\ financial_metrics_df' = met
                  /\ emitted' = Append(emitted,
                        [fund |-> 0, scheme_name |-> fetched.scheme_name,
                         returns |-> ret, metrics |-> met])
             ELSE UNCHANGED <<financial_metrics_df, emitted>>
          /\ script' = IF failed THEN "aborted" ELSE "idle"
    /\ UNCHANGED <<fund_codes, benchmark_df_comparison, fund_code, detailed_df,
                   calcVars, runVars>>

\* Detailed Annual Returns: the frame is fetched and its five columns computed
\* before the summary line reads scheme_name; only ValueError is caught
DetailedReturns ==
    /\ script = "done" /\ detailed_view = NoDetail
    /\ \E view \in {DetailedRequest(detailed_code, start_date, scheme_name)} :
          /\ detailed_view' = view
          /\ IF view.status \in {"shown", "NameError"}
             THEN /\ nav_df' = get_scheme_historical_nav(detailed_code)
                  /\ detailed_df' =
                        DetailedColumns(Floats(get_scheme_historical_nav(detailed_code)))
             ELSE UNCHANGED <<nav_df, detailed_df>>
          /\ script' = IF view.status = "NameError" THEN "aborted" ELSE "end"
    /\ UNCHANGED <<annualized_returns_df, metVars, calcVars, fund_codes,
                   benchmark_df_comparison, fund_code, scheme_name, emitted,
                   analysis_code, benchmark_df, detailed_code, start_date>>

NextRun == AnalysisMode \/ CompareOpen \/ CompareFund \/ DetailedReturns

SpecRun == InitRun /\ [][NextRun]_vars

\* ------------------------------------------------------------------------
\* Claims
\* ------------------------------------------------------------------------
\* the return the summary table owes for a window of n rows
WindowReturn(latest, base, n) ==
    IF n = TRADING_DAYS THEN SimpleReturn(latest, base)
    ELSE Geometric(latest, base, n \div TRADING_DAYS)

\* C1: for every non-empty series and every window N of the summary table, a
\* series of fewer than N+1 points gives an undefined (NaN) entry without
\* raising, and every window whose N+1 points are there is a defined value
\* computed from the last value and the value exactly N rows before it.
C1_ShortWindowsUndefined ==
    annualized_returns_df # NoTable =>
        /\ Len(annualized_returns_df) = Len(periods)
        /\ \A j \in 1..Len(periods) :
              IF Len(nav_df) < periods[j] + 1
              THEN RIsNaN(annualized_returns_df[j])
              ELSE /\ RIsFinite(annualized_returns_df[j])
                   /\ REq(annualized_returns_df[j],
                          WindowReturn(R(nav_df[Len(nav_df)]),
                                       R(nav_df[Len(nav_df) - periods[j]]),
                                       periods[j]))

\* C1 witness: a table with an undefined 3-year window beside a defined,
\* nonzero 2-year window
C1_Witness ==
    /\ annualized_returns_df # NoTable
    /\ Len(nav_df) = 2 * TRADING_DAYS + 1
    /\ RIsNaN(annualized_returns_df[3])
    /\ RIsFinite(annualized_returns_df[2])
    /\ ~REq(annualized_returns_df[2], R(0))

\* C6: the per-row table uses the summary's formula and look-back: row i of
\* the k-year column is computed from row i and the row exactly 250*k rows
\* earlier, rows with fewer than 250*k earlier rows are undefined, and the
\* last row equals the summary's entry for N = 250*k.
C6_DetailedMatchesSummary ==
    detailed_df # NoTable =>
        \A j \in 1..Len(DetailedYears) :
            /\ \A i \in 1..Len(nav_df) :
                  RSame(detailed_df[j][i],
                        IF i > TRADING_DAYS * DetailedYears[j]
                        THEN WindowReturn(R(nav_df[i]),
                                          R(nav_df[i - TRADING_DAYS * DetailedYears[j]]),
                                          TRADING_DAYS * DetailedYears[j])
                        ELSE NaN)
            /\ annualized_returns_df # NoTable =>
                  RSame(Last(detailed_df[j]), annualized_returns_df[j])

\* C2: SIP, inflation-adjusted, rate = 6 (monthly_rate = 0): the run ends in
\* the warning, and no final amount or gain is rendered; a rendered result
\* never holds an infinity or a NaN.
C2_ZeroRateIsReported ==
    /\ (tab = "SIP Calculator" /\ checkbox /\ rate_of_return = INFLATION
        /\ sip_view.status # "none")
       => sip_view = Warned
    /\ sip_view.status = "result"
       => RIsFinite(sip_view.final) /\ RIsFinite(sip_view.gain)

\* C2 witness: the adjusted calculator has run with rate 6 and warned
C2_Witness ==
    checkbox /\ rate_of_return = INFLATION /\ sip_view.status = "warning"

\* gain = final - invested on the three amounts as rendered
GainIsDifference(view) ==
    view.status = "result" => REq(view.gain, RSub(view.final, view.invested))

\* C5: in both calculators and both modes the rendered gain is the rendered
\* final amount minus the rendered invested amount, exactly.
C5_GainIsFinalMinusInvested ==
    GainIsDifference(sip_view) /\ GainIsDifference(lumpsum_view)

\* C10: whenever a result is rendered, invested and final amount are not
\* negative, and the gain is negative only in adjusted mode with a rate
\* below the inflation rate.
C10_SignsOfResult ==
    /\ sip_view.status = "result" =>
          /\ ~RLt(sip_view.invested, R(0)) /\ ~RLt(sip_view.final, R(0))
          /\ ~RLt(sip_view.future_value, R(0))
          /\ RLt(sip_view.gain, R(0)) => (checkbox /\ rate_of_return < INFLATION)
    /\ lumpsum_view.status = "result" =>
          /\ ~RLt(lumpsum_view.invested, R(0)) /\ ~RLt(lumpsum_view.final, R(0))
          /\ ~RLt(lumpsum_view.future_value, R(0))
          /\ RLt(lumpsum_view.gain, R(0))
                => (lumpsum_checkbox /\ lumpsum_rate_of_return < INFLATION)

\* C10 witness: an adjusted lumpsum at a rate below inflation loses money
C10_Witness ==
    /\ lumpsum_view.status = "result" /\ lumpsum_checkbox
    /\ lumpsum_rate_of_return < INFLATION
    /\ RLt(lumpsum_view.gain, R(0))
    /\ RLt(R(0), lumpsum_view.final)

\* the Sharpe ratio owed by the reported average return and risk
SharpeOfReported(m) ==
    RDiv(RSub(RDiv(m.AverageReturnPct, R(100)), RDiv(RISK_FREE_RATE, R(100))),
         m.AverageRisk)

\* C3: for any input return set the reported Sharpe ratio is NaN iff
\* average_risk = 0, and otherwise is (average_return - risk_free) / average_risk.
C3_SharpeNaNIffZeroRisk ==
    financial_metrics_df.status = "table" =>
        /\ RIsNaN(financial_metrics_df.SharpeRatio)
              <=> REq(financial_metrics_df.AverageRisk, R(0))
        /\ ~REq(financial_metrics_df.AverageRisk, R(0))
              => RSame(financial_metrics_df.SharpeRatio,
                       SharpeOfReported(financial_metrics_df))

NegativeCount(row) == Cardinality({i \in 1..Len(row) : RLt(row[i], R(0))})

\* C4 as stated: downside risk = 0 iff no input fund return is negative.
C4_DownsideZeroIffNoNegative ==
    financial_metrics_df.status = "table" =>
        (REq(financial_metrics_df.DownsideRisk, R(0)) <=> NegativeCount(returns_df) = 0)

\* C4 amended: downside risk is 0 when at most one fund return is negative
\* (none, or a single one), and is not 0 when two negative returns differ.
C4_DownsideZeroUpToOneNegative ==
    financial_metrics_df.status = "table" =>
        /\ NegativeCount(returns_df) <= 1 => REq(financial_metrics_df.DownsideRisk, R(0))
        /\ (\E i, j \in 1..Len(returns_df) :
               /\ RLt(returns_df[i], R(0)) /\ RLt(returns_df[j], R(0))
               /\ ~REq(returns_df[i], returns_df[j]))
           => RLt(R(0), financial_metrics_df.DownsideRisk)

\* C4 witness: a table for a row with exactly one negative return, and
\* downside risk 0
C4_Witness ==
    /\ financial_metrics_df.status = "table"
    /\ NegativeCount(returns_df) = 1
    /\ REq(financial_metrics_df.DownsideRisk, R(0))

\* alpha on the decimal scale, from the reported returns and the fitted slope
AlphaOfReported(m) ==
    RSub(RDiv(m.AverageReturnPct, R(100)),
         RMul(RDiv(m.BenchmarkReturnPct, R(100)),
              Slope(Decimals(benchmark_returns_df), Decimals(returns_df))))

\* the reported returns are percentages, risk is on the decimal scale
ReturnsPctRiskDecimal(m) ==
    /\ RSame(m.AverageReturnPct, RMul(Mean(Decimals(returns_df)), R(100)))
    /\ RSame(m.BenchmarkReturnPct, RMul(Mean(Decimals(benchmark_returns_df)), R(100)))
    /\ RSame(m.AverageRisk, Std(Decimals(returns_df)))

C8_MismatchedLengthsFail ==
    (financial_metrics_df.status # "none"
     /\ Len(returns_df) # Len(benchmark_returns_df))
    => financial_metrics_df = Raised("ValueError")

\* C8 witness: the call has failed on rows of different lengths whose
\* benchmark values are not all identical
C8_Witness ==
    /\ financial_metrics_df.status = "ValueError"
    /\ Len(returns_df) # Len(benchmark_returns_df)
    /\ ~AllIdentical(Decimals(benchmark_returns_df))

\* the funds of the list whose data the provider holds
Available(i) == get_scheme_historical_nav(fund_codes[i]) # << >>
                   /\ get_scheme_details(fund_codes[i]) # "None"

Emitted(i) == \E e \in 1..Len(emitted) : emitted[e].fund = i

\* C9: when a comparison over a list of fund codes has ended, every fund of
\* the list whose data is available has had its return table and metrics
\* table emitted, whether another fund of the list failed before or after it.
C9_FailureDoesNotBlockOthers ==
    (script \in {"done", "aborted"} /\ benchmark_df_comparison # << >>)
    => \A i \in 1..Len(fund_codes) : Available(i) => Emitted(i)


\* what the request emits when no earlier request of the run has bound a name
DetailedAlone(code, date) == DetailedRequest(code, date, Unbound)

\* C11: what a Detailed Annual Returns request emits, and how it completes,
\* is determined by its own inputs (scheme code, start date) alone: it is what
\* the same request emits in a run where no Analysis Mode or Comparison Mode
\* request came before it.
C11_DetailedIndependent ==
    detailed_view.status # "none" =>
        detailed_view = DetailedAlone(detailed_code, start_date)


\* the windows at which both the fund and the benchmark return are defined
ValidPairs ==
    {i \in 1..Shorter(returns_df, benchmark_returns_df) :
        ~RIsNaN(returns_df[i]) /\ ~RIsNaN(benchmark_returns_df[i])}

\* C12: when any fund window return passed to calculate_financial_metrics is
\* undefined (NaN), the reported average return, average risk, Sharpe ratio
\* and Alpha are all undefined, however many valid pairs there are; the
\* downside risk stays defined.
C12_UndefinedReturnPropagates ==
    (financial_metrics_df.status = "table"
     /\ \E i \in 1..Len(returns_df) : RIsNaN(returns_df[i]))
    => /\ RIsNaN(financial_metrics_df.AverageReturnPct)
       /\ RIsNaN(financial_metrics_df.AverageRisk)
       /\ RIsNaN(financial_metrics_df.SharpeRatio)
       /\ RIsNaN(financial_metrics_df.Alpha)
       /\ RIsFinite(financial_metrics_df.DownsideRisk)

\* C12 witness: a table for a row with one undefined fund return and two
\* valid pairs, whose downside risk is a positive number
C12_Witness ==
    /\ financial_metrics_df.status = "table"
    /\ Cardinality({i \in 1..Len(returns_df) : RIsNaN(returns_df[i])}) = 1
    /\ Cardinality(ValidPairs) >= 2
    /\ RIsNaN(financial_metrics_df.Alpha)
    /\ RLt(R(0), financial_metrics_df.DownsideRisk)

====
